---- MODULE Spec2Model ----
(***************************************************************************)
(* The meeting-processing pipeline of backend/app: upload_file creates a   *)
(* meeting row and schedules AIPipeline.run, which transcribes the audio   *)
(* segments on a thread pool, persists the transcript, extracts insights   *)
(* through the language model, indexes the transcript chunks in the vector *)
(* collection and writes the terminal status; search_in_meeting answers    *)
(* questions over the indexed chunks of one meeting.                       *)
(*                                                                         *)
(* A text (segment text, transcript, chunk, query) is the sequence of its  *)
(* words, a word being a positive integer; an embedding is a fixed-length  *)
(* numeric vector computed from the text.                                  *)
(***************************************************************************)
EXTENDS Integers, Sequences, FiniteSets, TLC

\* ---------------------------------------------------------------- bounds
MaxMeetings == 2
MaxSegs == 2
LongLen == 130
MaxWords == 800
MaxKeywords == 8
MaxChars == 4

\* ------------------------------------------------------ program constants
MaxWorkers == 8
ChunkSize == 300
Overlap == 50
NResults == 3

VARIABLES
    workload,    \* what the environment submits and which of its services may fail
    status,      \* meetings.status column, "absent" before the row is created
    transcript,  \* meetings.transcript column: <<>> (NULL) or <<text>>
    insights,    \* the insight columns: <<>> (NULL) or <<dict>>
    file,        \* whether the uploaded file exists under uploads/
    audio,       \* the uploaded recording: the text spoken in each 120 s segment
    pc,          \* where AIPipeline.run(meeting_id) stands
    segState,    \* transcribe(): state of the task of each segment
    results,     \* transcribe(): text returned by each finished task
    order,       \* transcribe(): task indices in the order the workers finished
    tr,          \* run(): the local variable transcript
    ins,         \* run(): the local variable insights
    exc,         \* run(): the exception caught by `except Exception as e`
    calls,       \* external services run() has invoked for the meeting
    llm,         \* how the language-model call of extract() ended ("none": not made)
    embeds,      \* how the embedding calls of add_transcript() ended, per chunk
    removes,     \* number of os.remove(filepath) calls made by run()
    collection,  \* the chromadb collection "meeting_transcripts"
    response,    \* the last response of POST /search/{meeting_id}
    lab          \* a function of the program called on its own: name, argument, result

vars == <<workload, status, transcript, insights, file, audio, pc, segState,
          results, order, tr, ins, exc, calls, llm, embeds, removes, collection,
          response, lab>>

Meetings == 1..MaxMeetings

None == <<>>
Some(x) == <<x>>

Min(a, b) == IF a < b THEN a ELSE b

\* The indices i..n satisfying Keep, in increasing order.
RECURSIVE IndicesWhere(_, _, _)
IndicesWhere(n, Keep(_), i) ==
    IF i > n THEN <<>>
    ELSE (IF Keep(i) THEN <<i>> ELSE <<>>) \o IndicesWhere(n, Keep, i + 1)

\* The words w+1 .. w+n.
Text(w, n) == [i \in 1..n |-> w + i]

\* What one segment of a recording may contain: silence, one word, two minutes of talk.
SegTexts == {Text(0, 0), Text(0, 1), Text(1, LongLen)}

\* Every recording of at most n segments over the texts of T.
Recordings(n, T) == UNION {[1..k -> T] : k \in 0..n}

\* ------------------------------------------------------------- persistence

\* update_status without its commit: the new status is never persisted.
update_status_uncommitted(st, m, s) == st

\* MeetingCRUD.update_status: the row's status is set when the row exists.
update_status(st, m, s) == IF st[m] = "absent" THEN st ELSE [st EXCEPT ![m] = s]

\* MeetingCRUD.update_transcript
update_transcript(t, m, text) == IF status[m] = "absent" THEN t ELSE [t EXCEPT ![m] = Some(text)]

\* How a call of update_status may end: "ok"; "raise_pre", the query or the
\* commit raised and nothing is persisted; "raise_post", the commit went through
\* and db.refresh raised.
StatusWriteOutcomes == IF workload.dbFaults THEN {"ok", "raise_pre", "raise_post"} ELSE {"ok"}

\* How a call of update_transcript or update_insights (no refresh) may end.
WriteOutcomes == IF workload.dbFaults THEN {"ok", "raise_pre"} ELSE {"ok"}

\* The status column after update_status(m, s) ended with outcome o.
StatusAfter(m, s, o) == IF o = "raise_pre" THEN status ELSE update_status(status, m, s)

\* ------------------------------------------------------------- upload_file

\* POST /upload: the file is written, the row created with status "processing"
\* and AIPipeline.run scheduled as a background task.
upload_file(m, rec) ==
    /\ m <= workload.meetings
    /\ status[m] = "absent"
    /\ \A k \in 1..(m - 1) : status[k] # "absent"
    /\ file' = [file EXCEPT ![m] = TRUE]
    /\ audio' = [audio EXCEPT ![m] = rec]
    /\ status' = [status EXCEPT ![m] = "processing"]
    /\ pc' = [pc EXCEPT ![m] = "start"]
    /\ UNCHANGED <<lab, workload, transcript, insights, segState, results, order, tr,
                   ins, exc, calls, llm, embeds, removes, collection, response>>

\* ------------------------------------------------------------ AIPipeline.run

\* Control passes to the except clause with exception e.
Raise(m, e) ==
    /\ pc' = [pc EXCEPT ![m] = "except"]
    /\ exc' = [exc EXCEPT ![m] = e]

\* run, line 282: update_status(db, meeting_id, "transcribing").
StatusTranscribing(m) ==
    /\ pc[m] = "start"
    /\ \E o \in StatusWriteOutcomes :
        /\ status' = StatusAfter(m, "transcribing", o)
        /\ IF o = "ok"
           THEN pc' = [pc EXCEPT ![m] = "convert"] /\ exc' = exc
           ELSE Raise(m, "SQLAlchemyError")
    /\ UNCHANGED <<lab, workload, transcript, insights, file, audio, segState, results,
                   order, tr, ins, calls, llm, embeds, removes, collection, response>>

\* How decoding the upload may end.
DecodeOutcomes == IF "decode" \in workload.faults THEN {"ok", "raise"} ELSE {"ok"}

\* transcribe, lines 79-89: the file is decoded and split and one task per
\* segment is handed to the pool; an undecodable file raises.
SubmitSegments(m) ==
    /\ pc[m] = "convert"
    /\ \E o \in DecodeOutcomes :
        IF o = "ok"
        THEN /\ segState' = [segState EXCEPT ![m] = [i \in 1..Len(audio[m]) |-> "queued"]]
             /\ pc' = [pc EXCEPT ![m] = "gather"]
             /\ exc' = exc
        ELSE /\ Raise(m, "CouldntDecodeError")
             /\ segState' = segState
    /\ UNCHANGED <<lab, workload, status, transcript, insights, file, audio, results,
                   order, tr, ins, calls, llm, embeds, removes, collection, response>>

\* Number of tasks of m a worker thread is running.
Running(m) == Cardinality({i \in DOMAIN segState[m] : segState[m][i] = "running"})

\* A pool without a width: a thread per submitted task.
WorkerStartUnbounded(m, i) ==
    /\ pc[m] = "gather"
    /\ i \in DOMAIN segState[m]
    /\ segState[m][i] = "queued"
    /\ segState' = [segState EXCEPT ![m][i] = "running"]
    /\ UNCHANGED <<lab, workload, status, transcript, insights, file, audio, pc, results,
                   order, tr, ins, exc, calls, llm, embeds, removes, collection, response>>

\* A free worker of the pool (max_workers=8) takes the oldest queued task.
WorkerStart(m, i) ==
    /\ pc[m] = "gather"
    /\ i \in DOMAIN segState[m]
    /\ segState[m][i] = "queued"
    /\ \A j \in 1..(i - 1) : segState[m][j] # "queued"
    /\ Running(m) < MaxWorkers
    /\ segState' = [segState EXCEPT ![m][i] = "running"]
    /\ UNCHANGED <<lab, workload, status, transcript, insights, file, audio, pc, results,
                   order, tr, ins, exc, calls, llm, embeds, removes, collection, response>>

\* How whisper's transcription of one segment may end.
TranscribeOutcomes == IF "transcribe" \in workload.faults THEN {"ok", "raise"} ELSE {"ok"}

\* _transcribe_chunk returns the text of segment i, or raises.
WorkerFinish(m, i) ==
    /\ pc[m] = "gather"
    /\ i \in DOMAIN segState[m]
    /\ segState[m][i] = "running"
    /\ \E o \in TranscribeOutcomes :
        IF o = "ok"
        THEN /\ segState' = [segState EXCEPT ![m][i] = "done"]
             /\ results' = [results EXCEPT ![m] = [j \in DOMAIN @ \cup {i} |->
                                IF j = i THEN audio[m][i] ELSE @[j]]]
             /\ order' = [order EXCEPT ![m] = Append(@, i)]
        ELSE /\ segState' = [segState EXCEPT ![m][i] = "failed"]
             /\ UNCHANGED <<results, order>>
    /\ UNCHANGED <<lab, workload, status, transcript, insights, file, audio, pc, tr,
                   ins, exc, calls, llm, embeds, removes, collection, response>>

\* " ".join(texts): the words of the texts, in the order of the list.
RECURSIVE Join(_)
Join(texts) == IF texts = <<>> THEN <<>> ELSE Head(texts) \o Join(Tail(texts))

\* What asyncio.gather would hand back if it listed the results as the tasks finished.
gatherByCompletion(res, ord) == [k \in 1..Len(ord) |-> res[ord[k]]]

\* asyncio.gather(*tasks): the results in the order of the tasks, whatever the
\* order ord in which they finished.
gather(res, ord) == [k \in 1..Len(ord) |-> res[k]]

\* transcribe with gather(..., return_exceptions=True) and the failures
\* filtered out: the texts of the segments that succeeded are joined.
GatherReturnsPartial(m) ==
    /\ pc[m] = "gather"
    /\ \A i \in DOMAIN segState[m] : segState[m][i] \in {"done", "failed"}
    /\ LET Done(i) == segState[m][i] = "done"
           idx == IndicesWhere(Len(segState[m]), Done, 1)
       IN tr' = [tr EXCEPT ![m] = Some(Join([k \in 1..Len(idx) |-> results[m][idx[k]]]))]
    /\ pc' = [pc EXCEPT ![m] = "transcribed"]
    /\ UNCHANGED <<lab, workload, status, transcript, insights, file, audio, segState,
                   results, order, ins, exc, calls, llm, embeds, removes, collection,
                   response>>

\* transcribe on a pool that is shut down without waiting
\* (shutdown(wait=False)): the first failure comes out of gather while other
\* workers are still transcribing.
GatherReturnsEarly(m) ==
    /\ pc[m] = "gather"
    /\ \/ \A i \in DOMAIN segState[m] : segState[m][i] = "done"
       \/ \E i \in DOMAIN segState[m] : segState[m][i] = "failed"
    /\ IF \E i \in DOMAIN segState[m] : segState[m][i] = "failed"
       THEN /\ Raise(m, "TranscriptionError")
            /\ tr' = tr
       ELSE /\ tr' = [tr EXCEPT ![m] = Some(Join(gather(results[m], order[m])))]
            /\ pc' = [pc EXCEPT ![m] = "transcribed"]
            /\ exc' = exc
    /\ UNCHANGED <<lab, workload, status, transcript, insights, file, audio, segState,
                   results, order, ins, calls, llm, embeds, removes, collection,
                   response>>

\* transcribe, lines 85-92: leaving the `with` block joins the pool's threads,
\* so every task has finished; a failed task's exception comes out of gather,
\* otherwise the joined results are returned to run.
GatherReturns(m) ==
    /\ pc[m] = "gather"
    /\ \A i \in DOMAIN segState[m] : segState[m][i] \in {"done", "failed"}
    /\ IF \E i \in DOMAIN segState[m] : segState[m][i] = "failed"
       THEN /\ Raise(m, "TranscriptionError")
            /\ tr' = tr
       ELSE /\ tr' = [tr EXCEPT ![m] = Some(Join(gather(results[m], order[m])))]
            /\ pc' = [pc EXCEPT ![m] = "transcribed"]
            /\ exc' = exc
    /\ UNCHANGED <<lab, workload, status, transcript, insights, file, audio, segState,
                   results, order, ins, calls, llm, embeds, removes, collection,
                   response>>

\* -------------------------------------------------------- InsightExtractor

TopKeywords == 7

\* SQL NULL / Python None in a text column.
NULL == "NULL"

\* Whether the phrase kw stands in text at word position p.
MatchesAt(kw, text, p) ==
    /\ p + Len(kw) - 1 <= Len(text)
    /\ \A k \in 1..Len(kw) : text[p + k - 1] = kw[k]

\* len(re.findall(r'\b' + keyword + r'\b', transcript)): the non-overlapping
\* whole-word occurrences of the (non-empty) phrase from word position p on,
\* found left to right.
RECURSIVE CountFrom(_, _, _)
CountFrom(kw, text, p) ==
    LET later == {q \in p..Len(text) : MatchesAt(kw, text, q)}
    IN IF later = {} THEN 0
       ELSE LET q == CHOOSE x \in later : \A y \in later : x <= y
            IN 1 + CountFrom(kw, text, q + Len(kw))

\* The same count on spelled-out texts, a text being the sequence of its
\* characters (one-character strings), where the spelling of a keyword matters.

\* str.lower() on the characters used here.
Lower(c) == CASE c = "A" -> "a" [] c = "T" -> "t" [] OTHER -> c

lower(text) == [i \in DOMAIN text |-> Lower(text[i])]

\* The regular expression's \w, on the characters used here: letters are word
\* characters, the blank and the plus sign are not.
IsWordChar(c) == c \notin {" ", "+"}

\* \b before position p of text (p = Len(text) + 1: at its end): exactly one
\* of the characters around the position is a word character.
Boundary(text, p) ==
    LET Word(i) == i \in DOMAIN text /\ IsWordChar(text[i])
    IN Word(p - 1) # Word(p)

\* r'\b' + re.escape(kw) + r'\b' matches text at position p.
PatternMatchesAt(kw, text, p) ==
    /\ p + Len(kw) - 1 <= Len(text)
    /\ Boundary(text, p)
    /\ \A k \in 1..Len(kw) : text[p + k - 1] = kw[k]
    /\ Boundary(text, p + Len(kw))

\* len(re.findall(pattern, text)) from position p on: the matches found left
\* to right, each search resuming behind the previous match (kw not empty).
RECURSIVE FindallFrom(_, _, _)
FindallFrom(kw, text, p) ==
    LET later == {q \in p..Len(text) : PatternMatchesAt(kw, text, q)}
    IN IF later = {} THEN 0
       ELSE LET q == CHOOSE x \in later : \A y \in later : x <= y
            IN 1 + FindallFrom(kw, text, q + Len(kw))

\* The body of the loop of _calculate_keyword_frequency (lines 129-132) for
\* one keyword: the entries it appends to frequencies.
KeywordEntries(keyword, text) ==
    LET count == FindallFrom(lower(keyword), lower(text), 1)
    IN IF count > 0 THEN <<[keyword |-> keyword, count |-> count]>> ELSE <<>>

\* list.sort(key=count, reverse=True): a stable sort, so e is placed after the
\* entries of the sorted list whose count is not smaller.
RECURSIVE InsertByCount(_, _)
InsertByCount(sorted, e) ==
    IF sorted = <<>> THEN <<e>>
    ELSE IF Head(sorted).count >= e.count
         THEN <<Head(sorted)>> \o InsertByCount(Tail(sorted), e)
         ELSE <<e>> \o sorted

RECURSIVE SortByCount(_)
SortByCount(fs) ==
    IF fs = <<>> THEN <<>>
    ELSE InsertByCount(SortByCount(SubSeq(fs, 1, Len(fs) - 1)), fs[Len(fs)])

\* The entries appended in the loop of _calculate_keyword_frequency.
RECURSIVE Frequencies(_, _)
Frequencies(keywords, text) ==
    IF keywords = <<>> THEN <<>>
    ELSE LET n == CountFrom(Head(keywords), text, 1)
         IN (IF n > 0 THEN <<[keyword |-> Head(keywords), count |-> n]>> ELSE <<>>)
            \o Frequencies(Tail(keywords), text)

\* _calculate_keyword_frequency without the slice [:7] of line 136.
_calculate_keyword_frequency_uncut(keywords, text) ==
    SortByCount(Frequencies(keywords, text))

\* A sort by count that is not stable: e is placed before the entries of the
\* sorted list whose count is the same.
RECURSIVE InsertBeforeEqual(_, _)
InsertBeforeEqual(sorted, e) ==
    IF sorted = <<>> THEN <<e>>
    ELSE IF Head(sorted).count > e.count
         THEN <<Head(sorted)>> \o InsertBeforeEqual(Tail(sorted), e)
         ELSE <<e>> \o sorted

RECURSIVE SortUnstable(_)
SortUnstable(fs) ==
    IF fs = <<>> THEN <<>>
    ELSE InsertBeforeEqual(SortUnstable(SubSeq(fs, 1, Len(fs) - 1)), fs[Len(fs)])

\* _calculate_keyword_frequency sorting with the unstable sort.
_calculate_keyword_frequency_unstable(keywords, text) ==
    LET sorted == SortUnstable(Frequencies(keywords, text))
    IN SubSeq(sorted, 1, Min(TopKeywords, Len(sorted)))

\* InsightExtractor._calculate_keyword_frequency
_calculate_keyword_frequency(keywords, text) ==
    LET sorted == SortByCount(Frequencies(keywords, text))
    IN SubSeq(sorted, 1, Min(TopKeywords, Len(sorted)))

\* The dictionary returned by the except clause of extract.
Sentinel ==
    [summary |-> "Error extracting insights.", action_items |-> <<>>,
     decisions |-> <<>>, keywords |-> <<>>, sentiment |-> "Unknown"]

\* A JSON object answering the prompt in full.
FullDoc ==
    [participants |-> <<"Ann">>, summary |-> "Summary",
     action_items |-> <<[task |-> "send notes", assigned_to |-> "Ann"]>>,
     decisions |-> <<"ship">>, keywords |-> <<Text(0, 1), Text(1, 1), Text(9, 1)>>,
     sentiment |-> "Positive"]

\* JSON objects the language model may stream back: a full answer, an answer
\* naming an assignee outside its participants, and an answer lacking fields.
ModelDocs ==
    { FullDoc,
      [participants |-> <<"Ann">>, summary |-> "Summary",
       action_items |-> <<[task |-> "send notes", assigned_to |-> "Bob"]>>,
       decisions |-> <<>>, keywords |-> <<Text(1, 2)>>,
       sentiment |-> "Neutral"],
      [summary |-> "Summary", sentiment |-> "Neutral"] }

\* How the streamed call of extract may end: the stream assembles to a JSON
\* object; httpx.RequestError (network); the assembled text is no JSON
\* (json.JSONDecodeError); raise_for_status raises httpx.HTTPStatusError.
LlmOutcomes ==
    IF "llm" \in workload.faults THEN {"ok", "request_error", "bad_json", "http_status"} ELSE {"ok"}

\* The exceptions `except (httpx.RequestError, json.JSONDecodeError, KeyError)` catches.
Caught(o) == o \in {"request_error", "bad_json"}

\* extract raises instead of returning: the exception is none of the caught ones.
ExtractRaises(o) == o # "ok" /\ ~Caught(o)

\* InsightExtractor.extract: what it returns for transcript text when the call
\* ended with o and (for "ok") the stream carried doc.
extract(text, o, doc) ==
    IF Caught(o) THEN Sentinel
    ELSE IF "keywords" \in DOMAIN doc
         THEN [doc EXCEPT !.keywords = _calculate_keyword_frequency(@, text)]
         ELSE doc

\* dict.get(key, default)
Get(d, key, default) == IF key \in DOMAIN d THEN d[key] ELSE default

\* MeetingCRUD.update_insights: the six insight columns of the row.
update_insights(cols, m, d) ==
    IF status[m] = "absent" THEN cols
    ELSE [cols EXCEPT ![m] = Some(
            [summary |-> Get(d, "summary", NULL),
             action_items |-> Get(d, "action_items", <<>>),
             decisions |-> Get(d, "decisions", <<>>),
             keywords |-> Get(d, "keywords", <<>>),
             participants |-> Get(d, "participants", <<>>),
             sentiment |-> Get(d, "sentiment", NULL)])]

\* run, line 286: update_transcript(db, meeting_id, transcript).
UpdateTranscript(m) ==
    /\ pc[m] = "transcribed"
    /\ \E o \in WriteOutcomes :
        IF o = "ok"
        THEN /\ transcript' = update_transcript(transcript, m, tr[m][1])
             /\ pc' = [pc EXCEPT ![m] = "to_analyzing"]
             /\ exc' = exc
        ELSE /\ Raise(m, "SQLAlchemyError")
             /\ transcript' = transcript
    /\ UNCHANGED <<lab, workload, status, insights, file, audio, segState, results,
                   order, tr, ins, calls, llm, embeds, removes, collection, response>>

\* run, line 289: update_status(db, meeting_id, "analyzing").
StatusAnalyzing(m) ==
    /\ pc[m] = "to_analyzing"
    /\ \E o \in StatusWriteOutcomes :
        /\ status' = StatusAfter(m, "analyzing", o)
        /\ IF o = "ok"
           THEN pc' = [pc EXCEPT ![m] = "extract"] /\ exc' = exc
           ELSE Raise(m, "SQLAlchemyError")
    /\ UNCHANGED <<lab, workload, transcript, insights, file, audio, segState, results,
                   order, tr, ins, calls, llm, embeds, removes, collection, response>>

\* run, line 291: insights = self.extractor.extract(transcript).
Extract(m) ==
    /\ pc[m] = "extract"
    /\ calls' = [calls EXCEPT ![m] = @ \cup {"extract"}]
    /\ \E o \in LlmOutcomes, doc \in workload.docs :
        /\ llm' = [llm EXCEPT ![m] = o]
        /\ IF ExtractRaises(o)
           THEN /\ Raise(m, "HTTPStatusError")
                /\ ins' = ins
           ELSE /\ ins' = [ins EXCEPT ![m] = Some(extract(tr[m][1], o, doc))]
                /\ pc' = [pc EXCEPT ![m] = "extracted"]
                /\ exc' = exc
    /\ UNCHANGED <<lab, embeds, workload, status, transcript, insights, file, audio, segState,
                   results, order, tr, removes, collection, response>>

\* run, line 292: update_insights(db, meeting_id, insights).
UpdateInsights(m) ==
    /\ pc[m] = "extracted"
    /\ \E o \in WriteOutcomes :
        IF o = "ok"
        THEN /\ insights' = update_insights(insights, m, ins[m][1])
             /\ pc' = [pc EXCEPT ![m] = "index"]
             /\ exc' = exc
        ELSE /\ Raise(m, "SQLAlchemyError")
             /\ insights' = insights
    /\ UNCHANGED <<lab, workload, status, transcript, file, audio, segState, results,
                   order, tr, ins, calls, llm, embeds, removes, collection, response>>

\* ------------------------------------------------------ VectorStoreService

\* The embedding backend: a fixed-length numeric vector computed from the text.
Emb(text) ==
    IF text = <<>> THEN <<0, 0, 0>> ELSE <<text[1], text[Len(text)], Len(text)>>

\* How one call of _get_embedding may end: "ok"; "none", httpx.RequestError or
\* KeyError, caught and turned into None; "raise", any other exception of the
\* call (raise_for_status's httpx.HTTPStatusError), which propagates.
EmbedOutcomes == IF "embed" \in workload.faults THEN {"ok", "none", "raise"} ELSE {"ok"}

\* VectorStoreService._get_embedding, for the outcomes that return.
_get_embedding(text, o) == IF o = "ok" THEN Some(Emb(text)) ELSE None

\* Chunking that steps by the chunk size: consecutive chunks share no word.
_chunk_text_disjoint(text, chunk_size, overlap) ==
    LET n == (Len(text) + chunk_size - 1) \div chunk_size
    IN [k \in 1..n |-> SubSeq(text, (k - 1) * chunk_size + 1,
                               Min(k * chunk_size, Len(text)))]

\* VectorStoreService._chunk_text: words[i:i + chunk_size] for i in
\* range(0, len(words), chunk_size - overlap).
_chunk_text(text, chunk_size, overlap) ==
    LET step == chunk_size - overlap
        n == (Len(text) + step - 1) \div step
    IN [k \in 1..n |-> SubSeq(text, (k - 1) * step + 1,
                               Min((k - 1) * step + chunk_size, Len(text)))]

\* collection.add: the records are stored under their ids; a record whose id
\* the collection already holds is left as it is.
collection_add(coll, entries) ==
    coll \cup {e \in entries : \A x \in coll : x.id # e.id}

\* How collection.add and collection.query may end.
IndexOutcomes == IF "index" \in workload.faults THEN {"ok", "raise"} ELSE {"ok"}

\* add_transcript, line 200: the list embeddings, holding for each chunk whose
\* first call of _get_embedding returned a vector what the second call returned.
embeddings_of(chunks, e1, e2) ==
    LET Passed(i) == e1[i] = "ok"
        kept == IndicesWhere(Len(chunks), Passed, 1)
    IN [k \in 1..Len(kept) |-> _get_embedding(chunks[kept[k]], e2[kept[k]])]

\* add_transcript, lines 203-207: the four lists handed to collection.add,
\* once line 203 has gone through (embeddings is as long as chunks).
add_arguments(m, chunks, embeddings) ==
    LET Valid(i) == embeddings[i] # None
        validIdx == IndicesWhere(Len(chunks), Valid, 1)
        valid_chunks == [k \in 1..Len(validIdx) |-> chunks[validIdx[k]]]
    IN [embeddings |-> embeddings,
        documents |-> valid_chunks,
        metadatas |-> [k \in 1..Len(valid_chunks) |-> [meeting_id |-> m]],
        ids |-> [k \in 1..Len(valid_chunks) |-> <<m, k - 1>>]]

\* add_transcript with ids numbered per transcript, f"{i}", instead of
\* f"{meeting_id}_{i}" (line 205).
add_transcript_shared_ids(coll, m, text, e1, e2, a) ==
    LET chunks == _chunk_text(text, ChunkSize, Overlap)
        n == Len(chunks)
        entries == {[id |-> <<0, k - 1>>, document |-> chunks[k],
                     embedding |-> _get_embedding(chunks[k], e2[k])[1], meeting_id |-> m] :
                    k \in 1..n}
    IN  IF n = 0 THEN [exc |-> "none", coll |-> coll]
        ELSE IF \E i \in 1..n : e1[i] # "ok" \/ e2[i] # "ok"
             THEN [exc |-> "HTTPStatusError", coll |-> coll]
        ELSE IF a = "raise" THEN [exc |-> "ChromaError", coll |-> coll]
        ELSE [exc |-> "none", coll |-> collection_add(coll, entries)]

\* VectorStoreService.add_transcript(meeting_id, transcript), where e1[i] is the
\* outcome of the call of _get_embedding on chunk i in the comprehension's
\* condition, e2[i] that of the call in its element expression (made only when
\* the first returned a vector) and a that of collection.add.  The result is
\* the collection afterwards and the exception that came out ("none": returned).
add_transcript(coll, m, text, e1, e2, a) ==
    LET chunks == _chunk_text(text, ChunkSize, Overlap)
        n == Len(chunks)
        embeddings == embeddings_of(chunks, e1, e2)
        valid_chunks == add_arguments(m, chunks, embeddings).documents
        doc_ids == add_arguments(m, chunks, embeddings).ids
        entries == {[id |-> doc_ids[k], document |-> valid_chunks[k],
                     embedding |-> embeddings[k][1], meeting_id |-> m] :
                    k \in 1..Len(valid_chunks)}
    IN  IF n = 0 THEN [exc |-> "none", coll |-> coll]
        ELSE IF \E i \in 1..n : e1[i] = "raise" \/ (e1[i] = "ok" /\ e2[i] = "raise")
             THEN [exc |-> "HTTPStatusError", coll |-> coll]
        ELSE IF embeddings = <<>> THEN [exc |-> "none", coll |-> coll]
        ELSE IF Len(embeddings) < n THEN [exc |-> "IndexError", coll |-> coll]
        ELSE IF Len(valid_chunks) # Len(embeddings) THEN [exc |-> "ValueError", coll |-> coll]
        ELSE IF a = "raise" THEN [exc |-> "ChromaError", coll |-> coll]
        ELSE [exc |-> "none", coll |-> collection_add(coll, entries)]

\* Whether add_transcript gets to make its first call of _get_embedding on
\* chunk i: no earlier call raised.
FirstCall(e1, e2, i) ==
    \A j \in 1..(i - 1) : e1[j] # "raise" /\ ~(e1[j] = "ok" /\ e2[j] = "raise")

\* Whether it makes the second call on chunk i: the first returned a vector.
SecondCall(e1, e2, i) == FirstCall(e1, e2, i) /\ e1[i] = "ok"

\* run, line 295: self.vector_store.add_transcript(meeting_id, transcript); a
\* call that is not made is logged as "none".
AddTranscript(m) ==
    /\ pc[m] = "index"
    /\ calls' = [calls EXCEPT ![m] = @ \cup {"add_transcript"}]
    /\ LET n == Len(_chunk_text(tr[m][1], ChunkSize, Overlap))
       IN \E e1 \in [1..n -> EmbedOutcomes], e2 \in [1..n -> EmbedOutcomes], a \in IndexOutcomes :
            /\ \A i \in 1..n : ~SecondCall(e1, e2, i) => e2[i] = "none"
            /\ \A i \in 1..n : ~FirstCall(e1, e2, i) => e1[i] = "none"
            /\ embeds' = [embeds EXCEPT ![m] = [i \in 1..n |-> <<e1[i], e2[i]>>]]
            /\ LET r == add_transcript(collection, m, tr[m][1], e1, e2, a)
               IN /\ collection' = r.coll
                  /\ IF r.exc = "none"
                     THEN pc' = [pc EXCEPT ![m] = "to_completed"] /\ exc' = exc
                     ELSE Raise(m, r.exc)
    /\ UNCHANGED <<lab, llm, workload, status, transcript, insights, file, audio, segState,
                   results, order, tr, ins, removes, response>>

\* run, line 298: update_status(db, meeting_id, "completed").
StatusCompleted(m) ==
    /\ pc[m] = "to_completed"
    /\ \E o \in StatusWriteOutcomes :
        /\ status' = StatusAfter(m, "completed", o)
        /\ IF o = "ok"
           THEN pc' = [pc EXCEPT ![m] = "finally"] /\ exc' = exc
           ELSE Raise(m, "SQLAlchemyError")
    /\ UNCHANGED <<lab, workload, transcript, insights, file, audio, segState, results,
                   order, tr, ins, calls, llm, embeds, removes, collection, response>>

\* run, lines 301-305: the except clause writes "failed"; when that write
\* raises, the exception leaves run through the finally clause.
HandleException(m) ==
    /\ pc[m] = "except"
    /\ \E o \in StatusWriteOutcomes : status' = StatusAfter(m, "failed", o)
    /\ pc' = [pc EXCEPT ![m] = "finally"]
    /\ UNCHANGED <<lab, workload, transcript, insights, file, audio, segState, results,
                   order, tr, ins, exc, calls, llm, embeds, removes, collection, response>>

\* The removal placed at the end of the try block instead of the finally
\* clause: a run that raised leaves the file behind.
CleanupOnSuccess(m) ==
    /\ pc[m] = "finally"
    /\ file' = [file EXCEPT ![m] = IF exc[m] = "none" THEN FALSE ELSE @]
    /\ removes' = [removes EXCEPT ![m] = IF file[m] /\ exc[m] = "none" THEN @ + 1 ELSE @]
    /\ pc' = [pc EXCEPT ![m] = "done"]
    /\ UNCHANGED <<lab, workload, status, transcript, insights, audio, segState, results,
                   order, tr, ins, exc, calls, llm, embeds, collection, response>>

\* run, lines 306-309: the finally clause removes the file if it exists and
\* closes the session; run returns.
Cleanup(m) ==
    /\ pc[m] = "finally"
    /\ file' = [file EXCEPT ![m] = FALSE]
    /\ removes' = [removes EXCEPT ![m] = IF file[m] THEN @ + 1 ELSE @]
    /\ pc' = [pc EXCEPT ![m] = "done"]
    /\ UNCHANGED <<lab, workload, status, transcript, insights, audio, segState, results,
                   order, tr, ins, exc, calls, llm, embeds, collection, response>>

\* ------------------------------------------------------------------ search

\* The questions a client may ask.
Queries == {Text(0, 1)}

\* A query without its where filter: every record of the collection passes.
whereAny(coll, m) == coll

\* The records of the collection passing where={"meeting_id": meeting_id}.
where(coll, m) == {e \in coll : e.meeting_id = m}

\* collection.query(query_embeddings, n_results, where): the result sets the
\* index may return, n_results of the records passing the filter (all of them
\* when there are fewer), whichever the index ranks nearest.
query(coll, m, k) ==
    LET match == where(coll, m)
    IN {S \in SUBSET match : Cardinality(S) = Min(k, Cardinality(match))}

\* What a client gets back from POST /search/{meeting_id}, with the services
\* the request called and the outcome qe of embedding the query ("" when the
\* request never got that far).
Response(m, code, answer, ctx, used, qe) ==
    [meeting |-> m, code |-> code, answer |-> answer,
     context |-> {[id |-> e.id, meeting_id |-> e.meeting_id] : e \in ctx},
     calls |-> used, embedding |-> qe]

\* search without the `if not context_chunks` test of lines 227-228: the
\* language model is asked even when the index returned nothing.
searchUnguarded(m, q, qe, qo, ctx, lo) ==
    IF qe = "raise" THEN Response(m, 500, "HTTPStatusError", {}, {"embed"}, qe)
    ELSE IF _get_embedding(q, qe) = None
         THEN Response(m, 200, "Could not process your query.", {}, {"embed"}, qe)
    ELSE IF qo = "raise" THEN Response(m, 500, "ChromaError", {}, {"embed", "query"}, qe)
    ELSE IF lo = "ok" THEN Response(m, 200, "model answer", ctx, {"embed", "query", "llm"}, qe)
    ELSE IF Caught(lo)
         THEN Response(m, 200, "There was an error generating an answer.", ctx,
                       {"embed", "query", "llm"}, qe)
    ELSE Response(m, 500, "HTTPStatusError", ctx, {"embed", "query", "llm"}, qe)

\* VectorStoreService.search(meeting_id, query) behind search_in_meeting, where
\* qe is the outcome of embedding the query, qo that of collection.query, ctx
\* the records the index returns and lo that of the language-model call.  An
\* exception leaving search reaches the client as code 500.
search(m, q, qe, qo, ctx, lo) ==
    IF qe = "raise" THEN Response(m, 500, "HTTPStatusError", {}, {"embed"}, qe)
    ELSE IF _get_embedding(q, qe) = None
         THEN Response(m, 200, "Could not process your query.", {}, {"embed"}, qe)
    ELSE IF qo = "raise" THEN Response(m, 500, "ChromaError", {}, {"embed", "query"}, qe)
    ELSE IF ctx = {}
         THEN Response(m, 200,
                  "I couldn't find any information related to your query in this meeting's transcript.",
                  ctx, {"embed", "query"}, qe)
    ELSE IF lo = "ok" THEN Response(m, 200, "model answer", ctx, {"embed", "query", "llm"}, qe)
    ELSE IF Caught(lo)
         THEN Response(m, 200, "There was an error generating an answer.", ctx,
                       {"embed", "query", "llm"}, qe)
    ELSE Response(m, 500, "HTTPStatusError", ctx, {"embed", "query", "llm"}, qe)

\* search_in_meeting without the status test of lines 100-101.
search_in_meeting_unchecked(m) ==
    /\ IF status[m] = "absent"
       THEN response' = Response(m, 404, "Meeting not found", {}, {}, "")
       ELSE \E q \in Queries, qe \in EmbedOutcomes, qo \in IndexOutcomes,
               ctx \in query(collection, m, NResults), lo \in LlmOutcomes :
                response' = search(m, q, qe, qo, ctx, lo)
    /\ UNCHANGED <<lab, workload, status, transcript, insights, file, audio, pc, segState,
                   results, order, tr, ins, exc, calls, llm, embeds, removes, collection>>

\* POST /search/{meeting_id}: 404 for an unknown meeting, 400 unless the
\* meeting is completed, else the answer of VectorStoreService.search.
search_in_meeting(m) ==
    /\ IF status[m] = "absent"
       THEN response' = Response(m, 404, "Meeting not found", {}, {}, "")
       ELSE IF status[m] # "completed"
            THEN response' = Response(m, 400, "Meeting is still processing.", {}, {}, "")
            ELSE \E q \in Queries, qe \in EmbedOutcomes, qo \in IndexOutcomes,
                    ctx \in query(collection, m, NResults), lo \in LlmOutcomes :
                     response' = search(m, q, qe, qo, ctx, lo)
    /\ UNCHANGED <<lab, workload, status, transcript, insights, file, audio, pc, segState,
                   results, order, tr, ins, exc, calls, llm, embeds, removes, collection>>

\* --------------------------------------------------------- specifications

\* The external services that may fail: decoding the upload, whisper, the
\* language model, the embedding endpoint, the vector index.
Faults == {"decode", "transcribe", "llm", "embed", "index"}

\* The state after AppCreator(): no meeting, an empty collection.
Created(w) ==
    /\ workload = w
    /\ status = [m \in Meetings |-> "absent"]
    /\ transcript = [m \in Meetings |-> None]
    /\ insights = [m \in Meetings |-> None]
    /\ file = [m \in Meetings |-> FALSE]
    /\ audio = [m \in Meetings |-> <<>>]
    /\ pc = [m \in Meetings |-> "idle"]
    /\ segState = [m \in Meetings |-> <<>>]
    /\ results = [m \in Meetings |-> <<>>]
    /\ order = [m \in Meetings |-> <<>>]
    /\ tr = [m \in Meetings |-> None]
    /\ ins = [m \in Meetings |-> None]
    /\ exc = [m \in Meetings |-> "none"]
    /\ calls = [m \in Meetings |-> {}]
    /\ llm = [m \in Meetings |-> "none"]
    /\ embeds = [m \in Meetings |-> <<>>]
    /\ removes = [m \in Meetings |-> 0]
    /\ collection = {}
    /\ response = Response(0, 0, "", {}, {}, "")

\* The application serving the workload w, no function called on its own.
InitWith(w) == Created(w) /\ lab = [fn |-> "", arg |-> None, out |-> None]

\* One upload of any recording; the external services may fail, persistence does not.
Init ==
    InitWith([meetings |-> 1, segs |-> MaxSegs, texts |-> SegTexts,
              docs |-> ModelDocs, faults |-> Faults, dbFaults |-> FALSE])

\* One upload of any recording; the external services and persistence may fail.
InitDb ==
    InitWith([meetings |-> 1, segs |-> MaxSegs, texts |-> SegTexts,
              docs |-> ModelDocs, faults |-> Faults, dbFaults |-> TRUE])

\* Several uploads of one-segment recordings sharing their vocabulary; of the
\* external services, the language model may fail, and it answers in full.
InitMulti ==
    InitWith([meetings |-> MaxMeetings, segs |-> 1, texts |-> {Text(0, 1)},
              docs |-> {FullDoc}, faults |-> {"llm"}, dbFaults |-> FALSE])

Next ==
    \E m \in Meetings :
        \/ \E rec \in Recordings(workload.segs, workload.texts) : upload_file(m, rec)
        \/ StatusTranscribing(m)
        \/ SubmitSegments(m)
        \/ \E i \in DOMAIN segState[m] : WorkerStart(m, i)
        \/ \E i \in DOMAIN segState[m] : WorkerFinish(m, i)
        \/ GatherReturns(m)
        \/ UpdateTranscript(m)
        \/ StatusAnalyzing(m)
        \/ Extract(m)
        \/ UpdateInsights(m)
        \/ AddTranscript(m)
        \/ StatusCompleted(m)
        \/ HandleException(m)
        \/ Cleanup(m)
        \/ search_in_meeting(m)

Spec == Init /\ [][Next]_vars

SpecDb == InitDb /\ [][Next]_vars

SpecMulti == InitMulti /\ [][Next]_vars

\* Two uploads of one-segment recordings; whisper and the language model may
\* fail for either of them.
InitPair ==
    InitWith([meetings |-> 2, segs |-> 1, texts |-> {Text(0, 1)},
              docs |-> {FullDoc}, faults |-> {"transcribe", "llm"}, dbFaults |-> FALSE])

SpecPair == InitPair /\ [][Next]_vars

\* One upload of a recording longer than the pool is wide, every service
\* working.
PoolSegs == MaxWorkers + 1

InitPool ==
    InitWith([meetings |-> 1, segs |-> PoolSegs, texts |-> {Text(0, 1)},
              docs |-> {FullDoc}, faults |-> {}, dbFaults |-> FALSE])

\* run up to the return of transcribe (lines 277-285).
NextTranscribe ==
    \E m \in Meetings :
        \/ \E rec \in Recordings(workload.segs, workload.texts) : upload_file(m, rec)
        \/ StatusTranscribing(m)
        \/ SubmitSegments(m)
        \/ \E i \in DOMAIN segState[m] : WorkerStart(m, i)
        \/ \E i \in DOMAIN segState[m] : WorkerFinish(m, i)
        \/ GatherReturns(m)

SpecPool == InitPool /\ [][NextTranscribe]_vars

\* A step of AIPipeline.run(m) or of a worker of its pool.
RunStep(m) ==
    \/ StatusTranscribing(m)
    \/ SubmitSegments(m)
    \/ \E i \in DOMAIN segState[m] : WorkerStart(m, i)
    \/ \E i \in DOMAIN segState[m] : WorkerFinish(m, i)
    \/ GatherReturns(m)
    \/ UpdateTranscript(m)
    \/ StatusAnalyzing(m)
    \/ Extract(m)
    \/ UpdateInsights(m)
    \/ AddTranscript(m)
    \/ StatusCompleted(m)
    \/ HandleException(m)
    \/ Cleanup(m)

\* The scheduled background task is started, its threads keep being scheduled
\* and each external call eventually returns or raises: a run that can take
\* a step eventually takes one.  Uploads and searches are the client's choice.
RunsProgress == \A m \in Meetings : WF_vars(RunStep(m))

\* One upload, the external services work or fail, persistence does not fail.
FairSpec == Init /\ [][Next]_vars /\ RunsProgress

\* One upload, the external services and persistence work or fail.
FairSpecDb == InitDb /\ [][Next]_vars /\ RunsProgress

\* ------------------------------------------- functions called on their own

\* The application with no upload: only the function under study is called.
NoUploads ==
    [meetings |-> 0, segs |-> 0, texts |-> {}, docs |-> {}, faults |-> {},
     dbFaults |-> FALSE]

\* The pending calls of function fn, one per argument of Args.
Pending(fn, Args) == {[fn |-> fn, arg |-> a, out |-> None] : a \in Args}

\* Transcripts of 0 .. MaxWords words, each word different from the others.
InitChunk ==
    Created(NoUploads) /\ lab \in Pending("_chunk_text", {Text(0, n) : n \in 0..MaxWords})

\* self._chunk_text(transcript), as add_transcript calls it (line 197).
ChunkText ==
    /\ lab.fn = "_chunk_text"
    /\ lab.out = None
    /\ lab' = [lab EXCEPT !.out = Some(_chunk_text(lab.arg, ChunkSize, Overlap))]
    /\ UNCHANGED <<workload, status, transcript, insights, file, audio, pc, segState,
                   results, order, tr, ins, exc, calls, llm, embeds, removes, collection,
                   response>>

SpecChunk == InitChunk /\ [][ChunkText]_vars

\* The keywords the language model may name, one word each, and the lists of
\* at most MaxKeywords of them it may return (repetitions included).
KeywordPool == {Text(0, 1), Text(1, 1), Text(2, 1), Text(3, 1)}

KeywordLists == UNION {[1..k -> KeywordPool] : k \in 0..MaxKeywords}

\* Transcripts in which the keywords occur 2, 1, 1, 0 times and 1, 2, 3, 0
\* times.
KeywordTexts == {<<1, 2, 1, 3>>, <<3, 2, 3, 3, 1, 2>>}

InitKeywords ==
    Created(NoUploads) /\
    lab \in Pending("_calculate_keyword_frequency",
                    {[keywords |-> ks, text |-> t] : ks \in KeywordLists, t \in KeywordTexts})

\* self._calculate_keyword_frequency(insights['keywords'], transcript), as
\* extract calls it (line 162).
KeywordFrequency ==
    /\ lab.fn = "_calculate_keyword_frequency"
    /\ lab.out = None
    /\ lab' = [lab EXCEPT !.out = Some(_calculate_keyword_frequency(lab.arg.keywords, lab.arg.text))]
    /\ UNCHANGED <<workload, status, transcript, insights, file, audio, pc, segState,
                   results, order, tr, ins, exc, calls, llm, embeds, removes, collection,
                   response>>

SpecKeywords == InitKeywords /\ [][KeywordFrequency]_vars

\* Spelled-out keywords: a plain word, a capitalised one, one ending in a
\* sign, and "art".
Spellings ==
    {<<"a", "t">>, <<"A", "t">>, <<"a", "+">>, <<"a", "r", "t">>}

\* Spelled-out transcripts: every text of at most MaxChars characters over
\* two letters (one in both cases), the plus sign and the blank, and "start
\* the art project".
Alphabet == {"a", "A", "t", "+", " "}

StartTheArtProject ==
    <<"s", "t", "a", "r", "t", " ", "t", "h", "e", " ", "a", "r", "t", " ",
      "p", "r", "o", "j", "e", "c", "t">>

Spelled == UNION {[1..k -> Alphabet] : k \in 0..MaxChars} \cup {StartTheArtProject}

InitCount ==
    Created(NoUploads) /\
    lab \in Pending("keyword_count",
                    {[keyword |-> kw, text |-> t] : kw \in Spellings, t \in Spelled})

\* One round of the loop of _calculate_keyword_frequency (lines 129-132).
CountKeyword ==
    /\ lab.fn = "keyword_count"
    /\ lab.out = None
    /\ lab' = [lab EXCEPT !.out = Some(KeywordEntries(lab.arg.keyword, lab.arg.text))]
    /\ UNCHANGED <<workload, status, transcript, insights, file, audio, pc, segState,
                   results, order, tr, ins, exc, calls, llm, embeds, removes, collection,
                   response>>

SpecCount == InitCount /\ [][CountKeyword]_vars

\* ------------------------------------------------------------- properties

\* The moves of a meeting's status the state machine allows.
ForwardMoves ==
    {<<"absent", "processing">>, <<"processing", "transcribing">>,
     <<"transcribing", "analyzing">>, <<"analyzing", "completed">>}
    \cup ({"processing", "transcribing", "analyzing"} \X {"failed"})

\* C1: the persisted status of every meeting only moves forward along
\* processing -> transcribing -> analyzing -> completed, or from one of the
\* first three to failed; completed and failed are never overwritten, also
\* when a persistence call raises.
C1_StatusForwardOnly ==
    [][\A m \in Meetings :
          status'[m] # status[m] => <<status[m], status'[m]>> \in ForwardMoves]_vars

\* C2: run removes the uploaded file exactly once on every path: never twice,
\* and when run has returned the file is gone after one removal.
C2_FileDeletedExactlyOnce ==
    \A m \in Meetings :
        /\ removes[m] <= 1
        /\ pc[m] = "done" => ~file[m] /\ removes[m] = 1

\* A run that ended in the except clause has returned with the file removed.
C2_Witness ==
    \E m \in Meetings :
        pc[m] = "done" /\ exc[m] # "none" /\ status[m] = "failed" /\ removes[m] = 1

\* C3: once the transcription of a segment has failed, no transcript (not the
\* text of the segments that succeeded either) is returned or persisted, neither
\* extract nor add_transcript is called, nothing is indexed for the meeting,
\* and the run ends with status failed.
C3_SegmentFailureAborts ==
    \A m \in Meetings :
        (\E i \in DOMAIN segState[m] : segState[m][i] = "failed") =>
            /\ tr[m] = None
            /\ transcript[m] = None
            /\ insights[m] = None
            /\ calls[m] = {}
            /\ \A e \in collection : e.meeting_id # m
            /\ pc[m] \in {"finally", "done"} => status[m] = "failed"

\* A run has returned after one segment failed and another yielded text.
C3_Witness ==
    \E m \in Meetings :
        /\ pc[m] = "done"
        /\ status[m] = "failed"
        /\ \E i, j \in DOMAIN segState[m] :
            /\ segState[m][i] = "failed"
            /\ segState[m][j] = "done"
            /\ results[m][j] # <<>>

\* C4: the transcript transcribe returns, and the one persisted, is the texts
\* of the segments joined in the order of the segments, whatever the order in
\* which the workers finished.
C4_TranscriptInSegmentOrder ==
    \A m \in Meetings :
        /\ tr[m] # None => tr[m][1] = Join(audio[m])
        /\ transcript[m] # None => transcript[m][1] = Join(audio[m])

\* transcribe has returned although a later segment finished before an
\* earlier one and joining in completion order would read differently.
C4_Witness ==
    \E m \in Meetings :
        /\ tr[m] # None
        /\ \E k \in 1..(Len(order[m]) - 1) : order[m][k] > order[m][k + 1]
        /\ Join([k \in 1..Len(order[m]) |-> results[m][order[m][k]]]) # Join(audio[m])

\* C5: a run whose transcription succeeded ends completed with the transcript
\* persisted, whatever fails in extraction, embedding or index writing.
C5_OnlyTranscriptionFails ==
    \A m \in Meetings :
        pc[m] = "done" /\ tr[m] # None =>
            status[m] = "completed" /\ transcript[m] = tr[m]

\* C6: when the language-model call of extract fails, extract returns the
\* sentinel result instead of raising, and the run ends completed.
C6_ExtractRecoversLocally ==
    \A m \in Meetings :
        llm[m] \notin {"none", "ok"} =>
            /\ ins[m] = Some(Sentinel)
            /\ pc[m] = "done" => status[m] = "completed"

\* C7: while a phase of run executes, the persisted status is the label of
\* that phase: transcribing from the decoding of the upload until the
\* transcript is persisted, analyzing while the insights are extracted and
\* persisted.
C7_StatusShowsRunningPhase ==
    \A m \in Meetings :
        /\ pc[m] \in {"convert", "gather", "transcribed"} => status[m] = "transcribing"
        /\ pc[m] \in {"extract", "extracted"} => status[m] = "analyzing"

\* A worker is transcribing a segment.
C7_Witness ==
    \E m \in Meetings :
        /\ pc[m] = "gather"
        /\ \E i \in DOMAIN segState[m] : segState[m][i] = "running"
        /\ status[m] = "transcribing"

\* C8: when each chunk's embedding either succeeds or fails (None), with at
\* least one of each or with all failing, add_transcript does not raise on that
\* account and stores exactly the chunks whose embedding succeeded.
C8_FailedChunksDropped ==
    \A m \in Meetings :
        ( /\ "add_transcript" \in calls[m]
          /\ \A i \in DOMAIN embeds[m] : embeds[m][i] \in {<<"ok", "ok">>, <<"none", "none">>}
          /\ \E i \in DOMAIN embeds[m] : embeds[m][i] = <<"none", "none">> ) =>
            /\ exc[m] \in {"none", "ChromaError"}
            /\ exc[m] = "none" =>
                 {e.document : e \in where(collection, m)} =
                 {_chunk_text(tr[m][1], ChunkSize, Overlap)[i] :
                    i \in {j \in DOMAIN embeds[m] : embeds[m][j] = <<"ok", "ok">>}}

\* C9: every chunk retrieved for a search on a meeting carries that meeting's
\* identifier.
C9_SearchScopedToMeeting ==
    \A e \in response.context : e.meeting_id = response.meeting

\* A search retrieved chunks while the collection held a chunk of another
\* meeting with the same text.
C9_Witness ==
    /\ response.code = 200
    /\ response.context # {}
    /\ \E e, f \in collection :
        /\ e.meeting_id = response.meeting
        /\ f.meeting_id # response.meeting
        /\ f.document = e.document

\* C10: no failure after the query is received makes search raise: the client
\* never sees an exception (code 500).
C10_SearchNeverRaises == response.code # 500

\* C11: a search whose query embedding failed returns exactly "Could not
\* process your query." and calls neither the vector index nor the language
\* model.
C11_FailedEmbeddingAnswered ==
    response.embedding \in {"none", "raise"} =>
        /\ response.code = 200
        /\ response.answer = "Could not process your query."
        /\ response.calls = {"embed"}

\* C11, the part that holds: after a failed query embedding neither the index
\* nor the language model is called.
C11_FailedEmbeddingStops ==
    response.embedding \in {"none", "raise"} => response.calls = {"embed"}

\* C12: indexing an empty transcript calls neither the embedding endpoint nor
\* the vector index and stores nothing, and a search on that meeting that gets
\* as far as the index finds no chunk and returns the not-found sentence
\* without asking the language model.
C12_EmptyTranscriptNotIndexed ==
    \A m \in Meetings :
        (tr[m] = Some(<<>>) /\ "add_transcript" \in calls[m]) =>
            /\ embeds[m] = <<>>
            /\ exc[m] = "none"
            /\ where(collection, m) = {}
            /\ (response.meeting = m /\ "query" \in response.calls /\ response.code = 200) =>
                  /\ response.answer =
                       "I couldn't find any information related to your query in this meeting's transcript."
                  /\ response.calls = {"embed", "query"}

\* A meeting with an empty transcript was indexed and completed, and a search
\* on it got as far as the index.
C12_Witness ==
    \E m \in Meetings :
        /\ tr[m] = Some(<<>>)
        /\ "add_transcript" \in calls[m]
        /\ status[m] = "completed"
        /\ response.meeting = m
        /\ response.calls = {"embed", "query"}
        /\ response.code = 200

\* C13: a search request calls the embedding endpoint, the index or the
\* language model only when the meeting's status is completed at the time of
\* the request; in every other status the request is refused (400, or 404 for
\* an unknown meeting) and VectorStoreService.search is not invoked.
C13_SearchOnlyWhenCompleted ==
    [][response' # response =>
         IF status[response'.meeting] = "completed"
         THEN "embed" \in response'.calls
         ELSE /\ response'.calls = {}
              /\ response'.code = IF status[response'.meeting] = "absent" THEN 404 ELSE 400]_vars

\* A search was refused while the run was past transcription and had stored
\* chunks of the meeting, before the status became completed.
C13_Witness ==
    /\ response.code = 400
    /\ response.calls = {}
    /\ pc[response.meeting] = "to_completed"
    /\ where(collection, response.meeting) # {}

\* What the finished run of meeting m leaves behind when it is the only run:
\* a function of m's recording and of how m's own calls of whisper and of the
\* language model ended (the services that fail in this workload).
AloneResult(m) ==
    LET text == Join(audio[m])
        n == Len(_chunk_text(text, ChunkSize, Overlap))
        ok == [i \in 1..n |-> "ok"]
    IN  IF \E i \in DOMAIN segState[m] : segState[m][i] = "failed"
        THEN /\ status[m] = "failed"
             /\ transcript[m] = None
             /\ insights[m] = None
             /\ where(collection, m) = {}
        ELSE /\ transcript[m] = Some(text)
             /\ IF llm[m] = "http_status"
                THEN /\ status[m] = "failed"
                     /\ insights[m] = None
                     /\ where(collection, m) = {}
                ELSE /\ status[m] = "completed"
                     /\ \E d \in workload.docs :
                          insights[m] = update_insights(insights, m, extract(text, llm[m], d))[m]
                     /\ where(collection, m) = add_transcript({}, m, text, ok, ok, "ok").coll

\* C14: runs of different meetings are independent: every step writes the
\* row and the index entries of one meeting only, and a finished run leaves
\* for its meeting what it leaves when it runs alone, whatever the other runs
\* did and however they ended.
C14_RunsIndependent ==
    /\ [](\A m \in Meetings : pc[m] = "done" => AloneResult(m))
    /\ [][\E m \in Meetings : \A k \in Meetings \ {m} :
            /\ status'[k] = status[k]
            /\ transcript'[k] = transcript[k]
            /\ insights'[k] = insights[k]
            /\ file'[k] = file[k]
            /\ where(collection', k) = where(collection, k)]_vars

\* Two runs are under way at once: one has failed in transcription and is
\* about to write its terminal status while the other is about to index its
\* transcript.
C14_Witness ==
    \E a, b \in Meetings :
        /\ a # b
        /\ pc[a] = "index" /\ transcript[a] # None /\ tr[a] # Some(<<>>)
        /\ pc[b] = "except" /\ exc[b] = "TranscriptionError"

\* C15: once transcribe has returned or raised, no task of the run is queued
\* or running, so no worker transcribes during a later phase or the terminal
\* status write; and the transcript is persisted and the status moved past
\* transcribing only when every segment's transcription has returned a text.
C15_TranscriptionJoinsWorkers ==
    \A m \in Meetings :
        /\ pc[m] \notin {"idle", "start", "convert", "gather"} =>
              \A i \in DOMAIN segState[m] : segState[m][i] \in {"done", "failed"}
        /\ (transcript[m] # None \/ status[m] \in {"analyzing", "completed"}) =>
              /\ segState[m] = [i \in DOMAIN audio[m] |-> "done"]
              /\ Len(order[m]) = Len(audio[m])

\* The first segment's transcription failed, the second one's finished, and
\* run is in its except clause.
C15_Witness ==
    \E m \in Meetings :
        /\ pc[m] = "except"
        /\ exc[m] = "TranscriptionError"
        /\ segState[m] = <<"failed", "done">>

\* C16: at every instant at most 8 segments of a run are being transcribed,
\* however many segments the recording has.
C16_AtMostEightTranscribing ==
    \A m \in Meetings :
        Cardinality({i \in DOMAIN segState[m] : segState[m][i] = "running"}) <= 8

\* Eight segments of a nine-segment recording are being transcribed and the
\* ninth waits for a worker.
C16_Witness ==
    \E m \in Meetings :
        /\ Len(segState[m]) > 8
        /\ Cardinality({i \in DOMAIN segState[m] : segState[m][i] = "running"}) = 8
        /\ \E i \in DOMAIN segState[m] : segState[m][i] = "queued"

\* C17: for a non-empty transcript, _chunk_text returns at least one chunk;
\* each chunk has 1..300 words and is the run of the transcript's words that
\* starts 250 words after the start of its predecessor (the first at the first
\* word); every word of the transcript lies in some chunk; and two consecutive
\* chunks share exactly 50 words, except the last pair, which may share fewer.
C17_ChunksCoverWithOverlap ==
    (lab.fn = "_chunk_text" /\ lab.out # None /\ lab.arg # <<>>) =>
        LET text == lab.arg
            chunks == lab.out[1]
            n == Len(chunks)
            First(k) == 250 * (k - 1) + 1
            Last(k) == First(k) + Len(chunks[k]) - 1
            Shared(k) == Cardinality({p \in First(k)..Last(k) : p >= First(k + 1) /\ p <= Last(k + 1)})
        IN  /\ n >= 1
            /\ \A k \in 1..n : Len(chunks[k]) \in 1..300
            /\ \A k \in 1..n : chunks[k] = SubSeq(text, First(k), Last(k))
            /\ \A p \in 1..Len(text) : \E k \in 1..n : p \in First(k)..Last(k)
            /\ \A k \in 1..(n - 2) : Shared(k) = 50
            /\ n >= 2 => Shared(n - 1) \in 1..50

\* A transcript is cut into three chunks, and the last two share fewer than 50
\* words.
C17_Witness ==
    /\ lab.fn = "_chunk_text"
    /\ lab.out # None
    /\ Len(lab.out[1]) = 3
    /\ Len(lab.out[1][2]) < 300

\* C18: the list returned by _calculate_keyword_frequency has at most 7
\* entries, its counts never increase from one entry to the next, and every
\* count is at least 1.
C18_TopSevenSortedPositive ==
    (lab.fn = "_calculate_keyword_frequency" /\ lab.out # None) =>
        LET out == lab.out[1]
        IN  /\ Len(out) <= 7
            /\ \A i \in 1..Len(out) : out[i].count >= 1
            /\ \A i, j \in 1..Len(out) : i < j => out[i].count >= out[j].count

\* Of eight keywords returned by the model one does not occur in the
\* transcript and the first occurs less often than a later one; seven entries
\* come back.
C18_Witness ==
    /\ lab.fn = "_calculate_keyword_frequency"
    /\ lab.out # None
    /\ Len(lab.arg.keywords) = 8
    /\ \E i \in 1..8 : \A p \in DOMAIN lab.arg.text : <<lab.arg.text[p]>> # lab.arg.keywords[i]
    /\ Len(lab.out[1]) = 7
    /\ lab.out[1][1].keyword # lab.arg.keywords[1]

\* The entries of seq whose count is c, in the order of seq.
WithCount(seq, c) == SelectSeq(seq, LAMBDA e : e.count = c)

\* The model's keywords that occur in the transcript, each with the number of
\* its occurrences, in the order in which the model returned them.
Occurring(keywords, text) ==
    LET Occ(kw) == Cardinality({p \in DOMAIN text : <<text[p]>> = kw})
        all == [i \in DOMAIN keywords |-> [keyword |-> keywords[i], count |-> Occ(keywords[i])]]
    IN SelectSeq(all, LAMBDA e : e.count > 0)

\* C20: for every count, the returned entries with that count are the first
\* ones, in the model's order, of the model's keywords with that count: ties
\* keep the input order, and where the list is cut after the 7th entry the
\* keywords that came first are the ones kept.
C20_TiesKeepInputOrder ==
    (lab.fn = "_calculate_keyword_frequency" /\ lab.out # None) =>
        LET out == lab.out[1]
            given == Occurring(lab.arg.keywords, lab.arg.text)
        IN  /\ Len(out) = Min(7, Len(given))
            /\ \A c \in 1..Len(lab.arg.text) :
                 LET kept == WithCount(out, c)
                 IN /\ Len(kept) <= Len(WithCount(given, c))
                    /\ kept = SubSeq(WithCount(given, c), 1, Len(kept))

\* Eight keywords with equal counts, not all the same, come back cut to the
\* first seven, the eighth differing from the seventh.
C20_Witness ==
    /\ lab.fn = "_calculate_keyword_frequency"
    /\ lab.out # None
    /\ Len(lab.arg.keywords) = 8
    /\ Len(lab.out[1]) = 7
    /\ \A i \in 1..7 : lab.out[1][i].count = lab.out[1][1].count
    /\ lab.arg.keywords[8] # lab.arg.keywords[7]
    /\ lab.arg.keywords[2] # lab.arg.keywords[1]
    /\ \E p \in DOMAIN lab.arg.text : <<lab.arg.text[p]>> = lab.arg.keywords[8]

\* Two characters are the same letter or sign, whatever their case.
SameChar(c, d) == c = d \/ {c, d} = {"a", "A"} \/ {c, d} = {"t", "T"}

\* kw stands in text at position p as a whole word: spelled the same up to
\* case, with no word character right before it or right after it.
WholeWordAt(kw, text, p) ==
    /\ p + Len(kw) - 1 <= Len(text)
    /\ \A k \in 1..Len(kw) : SameChar(text[p + k - 1], kw[k])
    /\ p > 1 => ~IsWordChar(text[p - 1])
    /\ p + Len(kw) <= Len(text) => ~IsWordChar(text[p + Len(kw)])

\* The number of whole-word occurrences of kw in text from position p on,
\* counted left to right without overlap.
RECURSIVE WholeWordsFrom(_, _, _)
WholeWordsFrom(kw, text, p) ==
    LET later == {q \in p..Len(text) : WholeWordAt(kw, text, q)}
    IN IF later = {} THEN 0
       ELSE LET q == CHOOSE x \in later : \A y \in later : x <= y
            IN 1 + WholeWordsFrom(kw, text, q + Len(kw))

\* C19: the count attached to a keyword is the number of case-insensitive
\* whole-word occurrences of the keyword in the transcript; an occurrence
\* inside a longer word is not counted.
C19_CountIsWholeWordOccurrences ==
    (lab.fn = "keyword_count" /\ lab.out # None) =>
        \A i \in DOMAIN lab.out[1] :
            lab.out[1][i].count = WholeWordsFrom(lab.arg.keyword, lab.arg.text, 1)

\* C19, the part that holds: a keyword that begins and ends with a word
\* character gets an entry exactly when it occurs as a whole word, with the
\* number of those occurrences; "art" in "start the art project" counts 1.
C19_WordKeywordsCounted ==
    ( /\ lab.fn = "keyword_count" /\ lab.out # None
      /\ IsWordChar(lab.arg.keyword[1])
      /\ IsWordChar(lab.arg.keyword[Len(lab.arg.keyword)]) ) =>
        LET n == WholeWordsFrom(lab.arg.keyword, lab.arg.text, 1)
        IN /\ lab.out[1] = IF n > 0 THEN <<[keyword |-> lab.arg.keyword, count |-> n]>> ELSE <<>>
           /\ (lab.arg.keyword = <<"a", "r", "t">> /\ lab.arg.text = StartTheArtProject) => n = 1

\* The names in a list.
Names(list) == {list[i] : i \in DOMAIN list}

\* Every action item of the insights d is assigned to one of d's participants
\* or to "Unassigned".
AssigneesKnown(d) ==
    \A i \in DOMAIN d.action_items :
        d.action_items[i].assigned_to \in Names(d.participants) \cup {"Unassigned"}

\* C21: in the insights that extract returned and in those update_insights
\* persisted, every action item is assigned to a participant of the same
\* insights or to "Unassigned", whatever the language model answered.
C21_AssigneeIsParticipant ==
    \A m \in Meetings :
        /\ (ins[m] # None /\ "action_items" \in DOMAIN ins[m][1]) =>
              AssigneesKnown([action_items |-> ins[m][1].action_items,
                              participants |-> Get(ins[m][1], "participants", <<>>)])
        /\ insights[m] # None => AssigneesKnown(insights[m][1])

\* C22: whenever add_transcript reaches collection.add, the lists of
\* embeddings, documents, metadata and ids it hands over have the same length,
\* entry k pairs a chunk with the embedding computed from that chunk, carries
\* the meeting id and the id <<m, k - 1>>, and the ids differ from one another;
\* and every record of the collection is such a pair.  This for every outcome
\* of each embedding call.
C22_IndexEntriesAligned ==
    /\ \A e \in collection :
         /\ e.embedding = Emb(e.document)
         /\ e.id[1] = e.meeting_id
         /\ \A f \in collection : f.id = e.id => f = e
    /\ \A m \in Meetings :
         ( /\ "add_transcript" \in calls[m]
           /\ embeds[m] # <<>>
           /\ \A i \in DOMAIN embeds[m] :
                embeds[m][i][1] = "ok" /\ embeds[m][i][2] \in {"ok", "none"} ) =>
            LET chunks == _chunk_text(tr[m][1], ChunkSize, Overlap)
                e1 == [i \in DOMAIN embeds[m] |-> embeds[m][i][1]]
                e2 == [i \in DOMAIN embeds[m] |-> embeds[m][i][2]]
                args == add_arguments(m, chunks, embeddings_of(chunks, e1, e2))
                n == Len(args.documents)
            IN  /\ Len(args.embeddings) = n
                /\ Len(args.metadatas) = n
                /\ Len(args.ids) = n
                /\ \A k \in 1..n :
                     /\ args.embeddings[k] = Some(Emb(args.documents[k]))
                     /\ args.metadatas[k].meeting_id = m
                     /\ args.ids[k] = <<m, k - 1>>
                /\ \A j, k \in 1..n : args.ids[j] = args.ids[k] => j = k

\* C22, the part that holds: every record that reached the collection pairs a
\* chunk with the embedding of that chunk under an id of its meeting, and no
\* two records share an id.
C22_StoredEntriesAligned ==
    \A e \in collection :
        /\ e.embedding = Emb(e.document)
        /\ e.id[1] = e.meeting_id
        /\ \A f \in collection : f.id = e.id => f = e

\* C23: every run that was started ends in a terminal status: once the row of
\* a meeting exists, its status eventually is completed or failed, provided
\* every external call of the run returns or raises.
C23_RunReachesTerminalStatus ==
    \A m \in Meetings : (status[m] # "absent") ~> (status[m] \in {"completed", "failed"})

====
